---------------------------- MODULE Spec2Model ----------------------------
(***************************************************************************)
(* A model of the waitlist crate (src/src/lib.rs): an ordered list of      *)
(* wakers protected by a mutex, with a lock-free flags word that the       *)
(* notify_* methods read before they take the lock.                        *)
(*                                                                         *)
(* Each WaitHandle is owned by one task; the notify_* methods are called   *)
(* by any number of threads, of which at most MaxCalls are inside a call   *)
(* at a time.  A call that takes the lock is two steps: the critical       *)
(* section (lock + the Inner method) and the drop of the Guard (publish    *)
(* the flags, release the mutex).  notify_* have one more step in front:   *)
(* the relaxed load of the flags word.                                     *)
(*                                                                         *)
(* Variables marked "history" are not state of the program: they record    *)
(* what the last step returned and woke, and which handle is really        *)
(* waiting or notified, so that the properties can be stated.              *)
(***************************************************************************)
EXTENDS Integers, Sequences, FiniteSets, TLC

\* ---------------------------------------------------------------- bounds
NumHandles == 2      \* WaitHandles (one task each)
MaxCalls == 2        \* notify_* calls in progress at the same time
NumWakers == 2       \* distinct wakers a task may pass in its Context
MaxInserts == 3      \* calls of Inner::insert in one behaviour
UsizeBits == 3       \* width of usize in the model

\* -------------------------------------------------------------- constants
WAITING == 2
NOTIFIED == 4

UsizeMod == 2 ^ UsizeBits
Usize == 0 .. (UsizeMod - 1)

None == -1
Handles == 1 .. NumHandles
Free == 0                       \* the mutex is not held
Notifier == NumHandles + 1      \* the mutex is held by a notify_* call
NotifyOps == {"notify_one", "notify_all", "notify_any"}
Wakers == 1 .. NumWakers
NoWaker == NumWakers + 1         \* history: no waker installed

VARIABLES
  inner,      \* Inner: [queue, notified_count, min_key, next_key]
  flags,      \* Waitlist.flags
  key,        \* key[h]: WaitHandle.key of handle h (None or a key)
  lock,       \* Waitlist.inner's mutex: Free, or the caller inside its guard
  pending,    \* pending[op]: calls of op between the flags load and the lock
  last,       \* history: the call that was decided by the last step
  woken,      \* history: the waiters whose waker the last step invoked
  waiting,    \* history: handles registered and not woken, oldest first
  notified,   \* history: handles woken and not yet consumed
  registered, \* history: handles waiting whose set_context has returned
  installed,  \* history: the waker of the handle's latest registration
  inserts,    \* history: number of Inner::insert calls so far
  limit       \* the number of Inner::insert calls the behaviour may make

vars ==
  <<inner, flags, key, lock, pending, last, woken, waiting, notified, registered,
    installed, inserts, limit>>

\* ------------------------------------------------------------- arithmetic
wrapping_add(x, y) == (x + y) % UsizeMod

\* `x -= 1` on a usize, as a build without overflow checks computes it
sub_one(x) == (x + UsizeMod - 1) % UsizeMod

HasBit(f, bit) == (f \div bit) % 2 = 1

\* ------------------------------------------------------------------ Inner
NewInner == [queue |-> << >>, notified_count |-> 0, min_key |-> 0, next_key |-> 0]

\* A queue entry; owner is history (the handle whose call pushed it).
Waiter(k, w, h) == [key |-> k, waker |-> w, owner |-> h]

is_in_waiting_range(in, k) ==
  k >= in.min_key \/ (in.next_key < in.min_key /\ k < in.next_key)

\* queue.iter().position(|w| w.key == key): 0 when there is none
Position(q, k) ==
  IF \E i \in 1 .. Len(q) : q[i].key = k
  THEN CHOOSE i \in 1 .. Len(q) :
         q[i].key = k /\ \A j \in 1 .. (i - 1) : q[j].key # k
  ELSE 0

\* VecDeque::remove(idx)
RemoveAt(q, idx) == [i \in 1 .. (Len(q) - 1) |-> IF i < idx THEN q[i] ELSE q[i + 1]]

\* The index of the entry for key k, looked for only when k is in range.
Lookup(in, k) == IF is_in_waiting_range(in, k) THEN Position(in.queue, k) ELSE 0

insert(in, w, h) ==
  [inner |-> [in EXCEPT !.next_key = wrapping_add(in.next_key, 1),
                        !.queue = Append(in.queue, Waiter(in.next_key, w, h))],
   key |-> in.next_key,
   inserted |-> TRUE]

\* update that pushes a new entry for a handle that is still in the queue
update_push_again(in, k, w, h) == insert(in, w, h)

\* update that re-registers a notified handle and leaves notified_count alone
update_keep_count(in, k, w, h) ==
  LET idx == Lookup(in, k) IN
  IF idx # 0
  THEN [inner |-> [in EXCEPT !.queue[idx].waker = w], key |-> k, inserted |-> FALSE]
  ELSE insert(in, w, h)

update(in, k, w, h) ==
  LET idx == Lookup(in, k) IN
  IF idx # 0
  THEN [inner |-> [in EXCEPT !.queue[idx].waker = w], key |-> k, inserted |-> FALSE]
  ELSE insert([in EXCEPT !.notified_count = sub_one(in.notified_count)], w, h)

\* notify_first with pop_back in the place of pop_front
notify_first_back(in) ==
  IF Len(in.queue) > 0
  THEN LET waiter == in.queue[Len(in.queue)] IN
       [inner |-> [in EXCEPT !.queue = SubSeq(in.queue, 1, Len(in.queue) - 1),
                             !.notified_count = wrapping_add(in.notified_count, 1),
                             !.min_key = wrapping_add(waiter.key, 1)],
        ret |-> TRUE,
        woken |-> <<waiter>>]
  ELSE [inner |-> in, ret |-> FALSE, woken |-> << >>]

notify_first(in) ==
  IF Len(in.queue) > 0
  THEN LET waiter == Head(in.queue) IN
       [inner |-> [in EXCEPT !.queue = Tail(in.queue),
                             !.notified_count = wrapping_add(in.notified_count, 1),
                             !.min_key = wrapping_add(waiter.key, 1)],
        ret |-> TRUE,
        woken |-> <<waiter>>]
  ELSE [inner |-> in, ret |-> FALSE, woken |-> << >>]

\* notify_all that counts one notification for the whole batch
notify_all_count_one(in) ==
  [inner |-> [in EXCEPT !.queue = << >>,
                        !.notified_count = wrapping_add(in.notified_count, 1),
                        !.min_key = in.next_key],
   ret |-> Len(in.queue) > 0,
   woken |-> in.queue]

notify_all(in) ==
  LET num_notified == Len(in.queue) IN
  [inner |-> [in EXCEPT !.queue = << >>,
                        !.notified_count = wrapping_add(in.notified_count, num_notified),
                        !.min_key = in.next_key],
   ret |-> num_notified > 0,
   woken |-> in.queue]

\* notify_any that trusts the flags and does not look at the count again
notify_any_no_recheck(in) == notify_first(in)

\* Waitlist::notify_any under the lock: the count is checked again
notify_any(in) ==
  IF in.notified_count = 0 THEN notify_first(in)
  ELSE [inner |-> in, ret |-> FALSE, woken |-> << >>]

\* remove with the result the other way round
remove_inverted(in, k) ==
  LET idx == Lookup(in, k) IN
  IF idx # 0
  THEN [inner |-> [in EXCEPT !.queue = RemoveAt(in.queue, idx)], ret |-> TRUE]
  ELSE [inner |-> [in EXCEPT !.notified_count = sub_one(in.notified_count)], ret |-> FALSE]

\* remove that leaves notified_count alone
remove_keep_count(in, k) ==
  LET idx == Lookup(in, k) IN
  IF idx # 0
  THEN [inner |-> [in EXCEPT !.queue = RemoveAt(in.queue, idx)], ret |-> FALSE]
  ELSE [inner |-> in, ret |-> TRUE]

remove(in, k) ==
  LET idx == Lookup(in, k) IN
  IF idx # 0
  THEN [inner |-> [in EXCEPT !.queue = RemoveAt(in.queue, idx)], ret |-> FALSE]
  ELSE [inner |-> [in EXCEPT !.notified_count = sub_one(in.notified_count)], ret |-> TRUE]

\* cancel that removes and never wakes the next waiter
cancel_no_forward(in, k) ==
  [inner |-> remove(in, k).inner, ret |-> FALSE, woken |-> << >>]

cancel(in, k) ==
  LET r == remove(in, k) IN
  IF r.ret THEN notify_first(r.inner)
  ELSE [inner |-> r.inner, ret |-> FALSE, woken |-> << >>]

\* update_if_pending that leaves notified_count alone
update_if_pending_keep_count(in, k, w) ==
  LET idx == Lookup(in, k) IN
  IF idx # 0
  THEN [inner |-> [in EXCEPT !.queue[idx].waker = w], ret |-> TRUE]
  ELSE [inner |-> in, ret |-> FALSE]

update_if_pending(in, k, w) ==
  LET idx == Lookup(in, k) IN
  IF idx # 0
  THEN [inner |-> [in EXCEPT !.queue[idx].waker = w], ret |-> TRUE]
  ELSE [inner |-> [in EXCEPT !.notified_count = sub_one(in.notified_count)], ret |-> FALSE]

\* a Guard drop that leaves WAITING out of the flags word
GuardFlags_no_waiting(in) == IF in.notified_count > 0 THEN NOTIFIED ELSE 0

\* a Guard drop that leaves NOTIFIED out of the flags word
GuardFlags_no_notified(in) == IF Len(in.queue) > 0 THEN WAITING ELSE 0

\* Drop for Guard: the flags word computed from the state under the lock
GuardFlags(in) ==
  (IF Len(in.queue) > 0 THEN WAITING ELSE 0)
  + (IF in.notified_count > 0 THEN NOTIFIED ELSE 0)

\* ---------------------------------------------------------------- history
\* The call decided by a step: its name, its caller, what it returned (for
\* set_context, which returns nothing: whether it pushed a new entry), how it
\* got there (under the lock, on the flags alone, or without either) and the
\* status its handle had before.
NoCall == [op |-> "none", who |-> 0, ret |-> FALSE, path |-> "none", was |-> "-"]

Call(op, p, ret, path, was) ==
  [op |-> op, who |-> p, ret |-> ret, path |-> path, was |-> was]

Status(h) ==
  IF \E i \in 1 .. Len(waiting) : waiting[i] = h THEN "Waiting"
  ELSE IF h \in notified THEN "Notified"
  ELSE "Unregistered"

Without(s, h) == SelectSeq(s, LAMBDA x : x # h)

Owners(ws) == {ws[i].owner : i \in 1 .. Len(ws)}

WithoutAll(s, hs) == SelectSeq(s, LAMBDA x : x \notin hs)

\* The handles of the waiters woken by a step leave `waiting` for `notified`.
Wake(ws, wt, nt) ==
  [waiting |-> WithoutAll(wt, Owners(ws)),
   notified |-> nt \cup {h \in Owners(ws) : \E i \in 1 .. Len(wt) : wt[i] = h}]

\* A woken handle has no waker installed any more.
Uninstall(ws, ins) == [h \in Handles |-> IF h \in Owners(ws) THEN NoWaker ELSE ins[h]]

\* ------------------------------------------------------------------ mutex
MutexHeld == lock # Free

\* notify_* calls that have loaded the flags and have not returned
InFlight ==
  pending["notify_one"] + pending["notify_all"] + pending["notify_any"]
  + (IF lock = Notifier THEN 1 ELSE 0)

\* ------------------------------------------------------------------- Init
Init ==
  /\ inner = NewInner
  /\ flags = 0
  /\ key = [h \in Handles |-> None]
  /\ lock = Free
  /\ pending = [op \in NotifyOps |-> 0]
  /\ last = NoCall
  /\ woken = << >>
  /\ waiting = << >>
  /\ notified = {}
  /\ registered = {}
  /\ installed = [h \in Handles |-> NoWaker]
  /\ inserts = 0
  /\ limit = MaxInserts

\* ---------------------------------------------------------- WaitHandle ops

\* WaitHandle::set_context, up to the drop of the guard
SetContext(h, w) ==
  /\ ~MutexHeld
  /\ LET r == IF key[h] # None THEN update(inner, key[h], w, h) ELSE insert(inner, w, h)
         was == Status(h)
     IN /\ r.inserted => inserts < limit
        /\ inner' = r.inner
        /\ key' = [key EXCEPT ![h] = r.key]
        /\ inserts' = IF r.inserted THEN inserts + 1 ELSE inserts
        /\ last' = Call("set_context", h, r.inserted, "locked", was)
        /\ woken' = << >>
        /\ waiting' = IF was = "Waiting" THEN waiting ELSE Append(waiting, h)
        /\ notified' = notified \ {h}
        /\ registered' = registered
        /\ installed' = [installed EXCEPT ![h] = w]
  /\ lock' = h
  /\ UNCHANGED <<flags, pending, limit>>

\* WaitHandle::finish on a handle that has a key
Finish(h) ==
  /\ key[h] # None
  /\ ~MutexHeld
  /\ LET r == remove(inner, key[h]) IN
        /\ inner' = r.inner
        /\ last' = Call("finish", h, r.ret, "locked", Status(h))
  /\ key' = [key EXCEPT ![h] = None]
  /\ woken' = << >>
  /\ waiting' = Without(waiting, h)
  /\ notified' = notified \ {h}
  /\ registered' = registered \ {h}
  /\ installed' = [installed EXCEPT ![h] = NoWaker]
  /\ lock' = h
  /\ UNCHANGED <<flags, pending, inserts, limit>>

\* WaitHandle::cancel on a handle that has a key
Cancel(h) ==
  /\ key[h] # None
  /\ ~MutexHeld
  /\ LET r == cancel(inner, key[h])
         g == Wake(r.woken, Without(waiting, h), notified \ {h})
     IN /\ inner' = r.inner
        /\ last' = Call("cancel", h, r.ret, "locked", Status(h))
        /\ woken' = r.woken
        /\ waiting' = g.waiting
        /\ notified' = g.notified
        /\ registered' = (registered \ {h}) \ Owners(r.woken)
        /\ installed' = Uninstall(r.woken, [installed EXCEPT ![h] = NoWaker])
  /\ key' = [key EXCEPT ![h] = None]
  /\ lock' = h
  /\ UNCHANGED <<flags, pending, inserts, limit>>

\* Drop for WaitHandle with a key: cancel, the result discarded.  The handle
\* is gone; its process goes on with a new handle from Waitlist::wait.
DropHandle(h) ==
  /\ key[h] # None
  /\ ~MutexHeld
  /\ LET r == cancel(inner, key[h])
         g == Wake(r.woken, Without(waiting, h), notified \ {h})
     IN /\ inner' = r.inner
        /\ last' = Call("drop", h, r.ret, "locked", Status(h))
        /\ woken' = r.woken
        /\ waiting' = g.waiting
        /\ notified' = g.notified
        /\ registered' = (registered \ {h}) \ Owners(r.woken)
        /\ installed' = Uninstall(r.woken, [installed EXCEPT ![h] = NoWaker])
  /\ key' = [key EXCEPT ![h] = None]
  /\ lock' = h
  /\ UNCHANGED <<flags, pending, inserts, limit>>

\* finish, cancel and drop of a handle without a key: no lock is taken
Unregistered(h, op) ==
  /\ lock # h
  /\ key[h] = None
  /\ last' = Call(op, h, FALSE, "nolock", Status(h))
  /\ woken' = << >>
  /\ UNCHANGED <<inner, flags, key, lock, pending, waiting, notified, registered, installed, inserts, limit>>

\* try_finish that consumes the notification and keeps the key in the handle
TryFinish_keep_key(h, w) ==
  /\ key[h] # None
  /\ ~MutexHeld
  /\ LET r == update_if_pending(inner, key[h], w) IN
        /\ inner' = r.inner
        /\ last' = Call("try_finish", h, ~r.ret, "locked", Status(h))
        /\ installed' = [installed EXCEPT ![h] = IF r.ret THEN w ELSE NoWaker]
        /\ waiting' = IF r.ret THEN waiting ELSE Without(waiting, h)
        /\ registered' = IF r.ret THEN registered ELSE registered \ {h}
  /\ notified' = notified \ {h}
  /\ woken' = << >>
  /\ lock' = h
  /\ UNCHANGED <<flags, key, pending, inserts, limit>>

\* WaitHandle::try_finish on a handle that has a key
TryFinish(h, w) ==
  /\ key[h] # None
  /\ ~MutexHeld
  /\ LET r == update_if_pending(inner, key[h], w) IN
        /\ inner' = r.inner
        /\ key' = [key EXCEPT ![h] = IF r.ret THEN key[h] ELSE None]
        /\ last' = Call("try_finish", h, ~r.ret, "locked", Status(h))
        /\ installed' = [installed EXCEPT ![h] = IF r.ret THEN w ELSE NoWaker]
        /\ waiting' = IF r.ret THEN waiting ELSE Without(waiting, h)
        /\ registered' = IF r.ret THEN registered ELSE registered \ {h}
  /\ notified' = notified \ {h}
  /\ woken' = << >>
  /\ lock' = h
  /\ UNCHANGED <<flags, pending, inserts, limit>>

\* WaitHandle::try_finish on a handle without a key: returns true, no lock
TryFinishUnregistered(h) ==
  /\ lock # h
  /\ key[h] = None
  /\ last' = Call("try_finish", h, TRUE, "nolock", Status(h))
  /\ woken' = << >>
  /\ UNCHANGED <<inner, flags, key, lock, pending, waiting, notified, registered, installed, inserts, limit>>

\* ----------------------------------------------------------- Waitlist ops

\* The relaxed load of the flags word that starts notify_one / notify_all /
\* notify_any: either the call returns false there, or it goes for the lock.
FastPath(op) ==
  /\ InFlight < MaxCalls
  /\ LET go == IF op = "notify_any"
               THEN ~HasBit(flags, NOTIFIED) /\ HasBit(flags, WAITING)
               ELSE HasBit(flags, WAITING)
     IN IF go
        THEN /\ pending' = [pending EXCEPT ![op] = @ + 1]
             /\ last' = NoCall
        ELSE /\ pending' = pending
             /\ last' = Call(op, Notifier, FALSE, "fast", "-")
  /\ woken' = << >>
  /\ UNCHANGED <<inner, flags, key, lock, waiting, notified, registered, installed, inserts, limit>>

\* The critical section of a notify_* call
Notify(op, r) ==
  /\ pending[op] > 0
  /\ ~MutexHeld
  /\ inner' = r.inner
  /\ last' = Call(op, Notifier, r.ret, "locked", "-")
  /\ woken' = r.woken
  /\ LET g == Wake(r.woken, waiting, notified) IN
        /\ waiting' = g.waiting
        /\ notified' = g.notified
  /\ registered' = registered \ Owners(r.woken)
  /\ installed' = Uninstall(r.woken, installed)
  /\ pending' = [pending EXCEPT ![op] = @ - 1]
  /\ lock' = Notifier
  /\ UNCHANGED <<flags, key, inserts, limit>>

NotifyOne == Notify("notify_one", notify_first(inner))

NotifyAll == Notify("notify_all", notify_all(inner))

NotifyAny == Notify("notify_any", notify_any(inner))

\* Drop for Guard, then the MutexGuard inside it: publish the flags, unlock
Release ==
  /\ MutexHeld
  /\ flags' = GuardFlags(inner)
  /\ lock' = Free
  /\ last' = NoCall
  /\ woken' = << >>
  /\ registered' = IF lock \in Handles /\ Status(lock) = "Waiting"
                   THEN registered \cup {lock} ELSE registered
  /\ UNCHANGED <<inner, key, pending, waiting, notified, installed, inserts, limit>>

\* ------------------------------------------------------------------- Next
Next ==
  \/ \E h \in Handles, w \in Wakers : SetContext(h, w)
  \/ \E h \in Handles : Finish(h)
  \/ \E h \in Handles : Cancel(h)
  \/ \E h \in Handles : DropHandle(h)
  \/ \E h \in Handles, op \in {"finish", "cancel", "drop"} : Unregistered(h, op)
  \/ \E h \in Handles, w \in Wakers : TryFinish(h, w)
  \/ \E h \in Handles : TryFinishUnregistered(h)
  \/ \E op \in NotifyOps : FastPath(op)
  \/ NotifyOne
  \/ NotifyAll
  \/ NotifyAny
  \/ Release

\* The behaviours of a Waitlist made by Waitlist::new().  With at most
\* MaxInserts < UsizeMod pushes the key counter does not wrap in them.
Spec == Init /\ [][Next]_vars

\* The same Waitlist used for longer: enough pushes for the key counter to
\* go once around usize and past its starting point.
InitWrap ==
  /\ inner = NewInner
  /\ flags = 0
  /\ key = [h \in Handles |-> None]
  /\ lock = Free
  /\ pending = [op \in NotifyOps |-> 0]
  /\ last = NoCall
  /\ woken = << >>
  /\ waiting = << >>
  /\ notified = {}
  /\ registered = {}
  /\ installed = [h \in Handles |-> NoWaker]
  /\ inserts = 0
  /\ limit = UsizeMod + MaxInserts

SpecWrap == InitWrap /\ [][Next]_vars

\* ------------------------------------------------- racing notify_any calls
\* The handles registered, in the order of their set_context calls
Orders ==
  {o \in UNION {[1 .. n -> Handles] : n \in 1 .. NumHandles} :
     \A i, j \in 1 .. Len(o) : i # j => o[i] # o[j]}

RECURSIVE InsertAll(_, _, _)
\* Inner after the set_context calls of the handles in order o, handle h with
\* waker wk[h]
InsertAll(in, o, wk) ==
  IF o = << >> THEN in
  ELSE InsertAll(insert(in, wk[Head(o)], Head(o)).inner, Tail(o), wk)

RECURSIVE Churn(_, _)
\* Inner after n times set_context and finish of one handle, with no notify
Churn(in, n) ==
  IF n = 0 THEN in
  ELSE Churn(remove(insert(in, 1, 1).inner, in.next_key).inner, n - 1)

\* A Waitlist on which, after n registrations that were finished again, some
\* handles have registered, every call has returned, and nothing else has
\* happened: notified_count = 0 and the queue is non-empty.
InitRace ==
  \E o \in Orders, wk \in [Handles -> Wakers] :
  \E n \in 0 .. (MaxInserts - Len(o)) :
    LET hs == {o[i] : i \in 1 .. Len(o)} IN
    /\ inner = InsertAll(Churn(NewInner, n), o, wk)
    /\ flags = GuardFlags(inner)
    /\ key = [h \in Handles |->
                IF h \in hs
                THEN inner.queue[CHOOSE i \in 1 .. Len(o) : o[i] = h].key
                ELSE None]
    /\ lock = Free
    /\ pending = [op \in NotifyOps |-> 0]
    /\ last = NoCall
    /\ woken = << >>
    /\ waiting = o
    /\ notified = {}
    /\ registered = hs
    /\ installed = [h \in Handles |-> IF h \in hs THEN wk[h] ELSE NoWaker]
    /\ inserts = n + Len(o)
    /\ limit = MaxInserts

\* notify_any calls only: no finish, cancel or set_context in between
NextRace ==
  \/ FastPath("notify_any")
  \/ NotifyAny
  \/ Release

SpecRace == InitRace /\ [][NextRace]_vars

\* ------------------------------------------------------------- properties
IsWaiting(h) == Status(h) = "Waiting"
IsNotified(h) == Status(h) = "Notified"

\* the step wakes exactly the waiter at the head of the queue, which is the
\* entry of the handle that has been waiting longest
WakesHead ==
  /\ Len(woken') = 1
  /\ woken'[1] = Head(inner.queue)
  /\ woken'[1].owner = Head(waiting)
  /\ woken'[1].waker = installed[Head(waiting)]

\* C1: FIFO fairness.  A notify_one call that reaches the queue, and a
\* notify_any call that wakes, wake the waiter of the handle that has been
\* waiting longest (the queue head) and no other; with nobody waiting they
\* wake nobody.  So N registrations followed by N notify_one calls wake the
\* handles in the order of registration, one per call.
C1_FifoOrder ==
  [][ /\ NotifyOne => IF waiting # << >>
                       THEN last'.ret /\ WakesHead
                       ELSE ~last'.ret /\ woken' = << >>
      /\ (NotifyAny /\ last'.ret) => (waiting # << >> /\ WakesHead)
      /\ (NotifyOne \/ NotifyAny) => waiting' = WithoutAll(waiting, Owners(woken'))
    ]_vars

\* C1 witness: notify_one has woken the oldest of two waiting handles; the
\* younger one is still waiting.
C1_Witness ==
  /\ last.op = "notify_one" /\ last.ret
  /\ Len(woken) = 1 /\ waiting # << >>
  /\ woken[1].owner \in notified

NotifyFalse == last.op \in {"notify_one", "notify_all"} /\ ~last.ret

C4_OnlyConsumed ==
  [][ inner'.notified_count < inner.notified_count =>
        (last'.op \in {"finish", "try_finish"} /\ last'.ret)
    ]_vars

\* C4 amended: every notification is held by one Notified handle and counted
\* in notified_count until the holder of that handle acts.  Then finish() or
\* try_finish() returns true and consumes it, once; or set_context makes the
\* handle Waiting again and takes it back; or cancel / drop hand it to the
\* queue head when a waiter is waiting, and discard it only when nobody is.
C4_NotificationAccounting ==
  [][ /\ inner'.notified_count = Cardinality(notified')
      /\ \A h \in Handles :
            ((Cancel(h) \/ DropHandle(h)) /\ IsNotified(h)) =>
              IF waiting # << >>
              THEN /\ inner'.notified_count = inner.notified_count
                   /\ notified' = (notified \ {h}) \cup {Head(waiting)}
                   /\ Owners(woken') = {Head(waiting)}
              ELSE /\ inner'.notified_count = inner.notified_count - 1
                   /\ woken' = << >>
      /\ inner'.notified_count < inner.notified_count =>
            /\ inner'.notified_count = inner.notified_count - 1
            /\ last'.who \in notified
            /\ notified' = notified \ {last'.who}
            /\ \/ last'.op \in {"finish", "try_finish"} /\ last'.ret
               \/ last'.op = "set_context"
               \/ last'.op \in {"cancel", "drop"} /\ waiting = << >>
      /\ (last'.op \in {"finish", "try_finish"} /\ last'.ret /\ last'.path = "locked") =>
            /\ last'.who \in notified
            /\ last'.who \notin notified'
            /\ inner'.notified_count = inner.notified_count - 1
    ]_vars

\* C4 witness: a Notified handle was cancelled or dropped while nobody was
\* waiting; its notification is gone and nobody was woken.
C4_Witness ==
  /\ last.op \in {"cancel", "drop"} /\ last.was = "Notified"
  /\ ~last.ret /\ woken = << >>
  /\ inner.notified_count = 0

NoDuplicates(ws) == \A i, j \in 1 .. Len(ws) : ws[i].owner = ws[j].owner => i = j

\* C5: notify_all wakes every handle that is waiting exactly once, in queue
\* order, and no handle that is already Notified; it leaves the queue empty,
\* adds the number of woken waiters to notified_count and returns true
\* exactly when it woke somebody.  When it returns false without the lock,
\* no handle whose set_context has returned is waiting.
C5_NotifyAll ==
  [][ /\ NotifyAll =>
            /\ woken' = inner.queue
            /\ NoDuplicates(woken')
            /\ Owners(woken') = {waiting[i] : i \in 1 .. Len(waiting)}
            /\ Owners(woken') \cap notified = {}
            /\ \A i \in 1 .. Len(woken') : woken'[i].waker = installed[woken'[i].owner]
            /\ inner'.queue = << >>
            /\ waiting' = << >>
            /\ inner'.notified_count = inner.notified_count + Len(woken')
            /\ last'.ret = (Len(woken') > 0)
      /\ (FastPath("notify_all") /\ last'.path = "fast") =>
            /\ ~last'.ret
            /\ woken' = << >>
            /\ registered = {}
    ]_vars

\* C5 witness: notify_all has woken two waiters.
C5_Witness ==
  /\ last.op = "notify_all" /\ last.ret
  /\ Len(woken) = 2 /\ inner.notified_count >= 2

\* C6: notify_any wakes only when nothing is notified and unconsumed.  Under
\* the lock: with notified_count > 0 it wakes nobody, changes nothing and
\* returns false; with notified_count = 0 and a waiter queued it wakes the
\* queue head and returns true.  A call that starts while no other call is
\* inside its guard returns false at once when notified_count > 0, and never
\* returns false at once when notified_count = 0 and a waiter is queued.
C6_NotifyAny ==
  [][ /\ NotifyAny =>
            /\ inner.notified_count > 0 =>
                  (~last'.ret /\ woken' = << >> /\ inner' = inner)
            /\ (inner.notified_count = 0 /\ inner.queue # << >>) =>
                  (last'.ret /\ WakesHead /\ inner'.notified_count = 1)
      /\ FastPath("notify_any") =>
            /\ woken' = << >>
            /\ (lock = Free /\ inner.notified_count > 0) =>
                  (last'.path = "fast" /\ ~last'.ret)
            /\ (lock = Free /\ inner.notified_count = 0 /\ inner.queue # << >>) =>
                  last'.path # "fast"
    ]_vars

\* C6 witness: under the lock notify_any found a waiter queued and a
\* notification pending, and woke nobody.
C6_Witness ==
  /\ last.op = "notify_any" /\ last.path = "locked" /\ ~last.ret
  /\ inner.queue # << >> /\ inner.notified_count > 0


\* the queue without the entries pushed by handle h
NotOf(q, h) == SelectSeq(q, LAMBDA e : e.owner # h)

C8_FinishDoc ==
  last.op = "finish" =>
    /\ woken = << >>
    /\ last.ret = (last.was = "Waiting")

\* C9 as documented on cancel(): when the handle is still Waiting and another
\* task is waiting in the queue, cancel() removes the waker of the handle,
\* wakes the next task and returns true.
C9_CancelDoc ==
  (last.op = "cancel" /\ last.was = "Waiting" /\ (waiting # << >> \/ woken # << >>)) =>
    /\ last.ret
    /\ Len(woken) = 1

\* C10: set_context on a Waiting handle replaces the waker in place: the key
\* of the handle, the length of the queue, the position of the entry and all
\* other entries stay as they are, and nobody is woken.  A handle never has
\* two entries in the queue, and every wake invokes the waker that the woken
\* handle installed last, once.
C10_UpdateInPlace ==
  [][ /\ \A h \in Handles, w \in Wakers :
            (SetContext(h, w) /\ IsWaiting(h)) =>
              /\ key'[h] = key[h]
              /\ \E i \in 1 .. Len(inner.queue) :
                    /\ inner.queue[i].owner = h
                    /\ inner'.queue = [inner.queue EXCEPT ![i].waker = w]
              /\ waiting' = waiting
              /\ inner'.notified_count = inner.notified_count
              /\ woken' = << >>
      /\ NoDuplicates(inner'.queue)
      /\ NoDuplicates(woken')
      /\ \A i \in 1 .. Len(woken') : woken'[i].waker = installed[woken'[i].owner]
    ]_vars

\* C10 witness: set_context on a Waiting handle at the head of the queue,
\* with a second waiter behind it, has replaced the waker without a push.
C10_Witness ==
  /\ last.op = "set_context" /\ last.was = "Waiting" /\ ~last.ret
  /\ Len(inner.queue) = 2
  /\ inner.queue[1].owner = last.who
  /\ inserts = 2

\* C11: set_context on a Notified handle takes one off notified_count and
\* puts the handle back in the queue as a new entry at the tail, behind every
\* waiter that is queued, with the key that insert hands out and the waker of
\* the call; the entries already queued stay as they are and nobody is woken.
\* Every wake invokes the waker of an entry of the queue and takes that entry
\* out, so the entry pushed here is woken with the waker of this call, once.
C11_ReRegister ==
  [][ /\ \A h \in Handles, w \in Wakers :
            (SetContext(h, w) /\ IsNotified(h)) =>
              /\ inner'.notified_count = inner.notified_count - 1
              /\ key'[h] = inner.next_key
              /\ inner'.queue = Append(inner.queue, Waiter(inner.next_key, w, h))
              /\ waiting' = Append(waiting, h)
              /\ woken' = << >>
              /\ IsWaiting(h)'
      /\ \A i \in 1 .. Len(woken') :
            /\ \E j \in 1 .. Len(inner.queue) : inner.queue[j] = woken'[i]
            /\ \A j \in 1 .. Len(inner'.queue) : inner'.queue[j].key # woken'[i].key
            /\ \A j \in 1 .. Len(woken') : j # i => woken'[j].key # woken'[i].key
    ]_vars

\* C11 witness: a Notified handle has called set_context while another
\* handle was waiting, and is now queued behind it.
C11_Witness ==
  /\ last.op = "set_context" /\ last.was = "Notified" /\ last.ret
  /\ Len(inner.queue) = 2
  /\ inner.queue[2].owner = last.who
  /\ inner.notified_count = 0

\* C12 as stated: try_finish returns true only for a handle that was
\* Notified.
C12_TrueOnlyIfNotified ==
  (last.op = "try_finish" /\ last.ret) => last.was = "Notified"

\* C12: try_finish on a handle that has a key returns true exactly when the
\* handle was Notified; the handle then has no key any more, notified_count
\* is one less and the queue is as it was.  On a Waiting handle it returns
\* false, puts the waker of the call into the entry of the handle where it
\* is, and leaves the key, the order of the queue and notified_count as they
\* were.  It wakes nobody.  On a handle without a key it returns true and
\* touches nothing; it never returns true for a Waiting handle.
C12_TryFinish ==
  [][ /\ \A h \in Handles, w \in Wakers :
            TryFinish(h, w) =>
              /\ IsWaiting(h) \/ IsNotified(h)
              /\ last'.ret = IsNotified(h)
              /\ woken' = << >>
              /\ IsNotified(h) =>
                    /\ key'[h] = None
                    /\ inner'.notified_count = inner.notified_count - 1
                    /\ inner'.queue = inner.queue
                    /\ ~IsNotified(h)' /\ ~IsWaiting(h)'
              /\ IsWaiting(h) =>
                    /\ key'[h] = key[h]
                    /\ \E i \in 1 .. Len(inner.queue) :
                          /\ inner.queue[i].owner = h
                          /\ inner'.queue = [inner.queue EXCEPT ![i].waker = w]
                    /\ inner'.notified_count = inner.notified_count
                    /\ waiting' = waiting
      /\ \A h \in Handles :
            TryFinishUnregistered(h) =>
              /\ ~IsWaiting(h) /\ ~IsNotified(h)
              /\ last'.ret
              /\ UNCHANGED <<inner, flags, key>>
    ]_vars

\* C12 witness: try_finish has consumed the notification of a Notified handle
\* while another handle was waiting in the queue.
C12_Witness ==
  /\ last.op = "try_finish" /\ last.was = "Notified" /\ last.ret
  /\ key[last.who] = None
  /\ inner.queue # << >>

\* a handle that is neither Waiting nor Notified holds no key
NoStaleKey == \A h \in Handles : Status(h) = "Unregistered" => key[h] = None

\* C13: finish, cancel and drop of a handle with no live registration (never
\* registered, or finished, cancelled or consumed before) are no-ops: such a
\* handle holds no key, so the call takes no lock, leaves the queue,
\* notified_count, min_key, next_key and the flags word as they were and
\* invokes no waker; finish and cancel return false.
C13_NoOps ==
  [][ /\ NoStaleKey /\ NoStaleKey'
      /\ \A h \in Handles, op \in {"finish", "cancel", "drop"} :
            Unregistered(h, op) =>
              /\ Status(h) = "Unregistered"
              /\ ~last'.ret
              /\ woken' = << >>
              /\ UNCHANGED <<inner, flags, key>>
      /\ (last'.op \in {"finish", "cancel", "drop"} /\ last'.was = "Unregistered") =>
              /\ last'.path = "nolock"
              /\ ~last'.ret
              /\ woken' = << >>
              /\ UNCHANGED <<inner, flags>>
    ]_vars

\* C13 witness: after two pushes, a handle with no live registration is
\* dropped while a waiter is queued; the queue and the flags still show it.
C13_Witness ==
  /\ last.op = "drop" /\ last.was = "Unregistered" /\ last.path = "nolock"
  /\ inner.queue # << >>
  /\ HasBit(flags, WAITING)
  /\ inserts = 2

\* C14: no leaked entries.  Once every handle has been finished, cancelled,
\* consumed or dropped (no handle holds a key, no call holds the lock), the
\* queue is empty, notified_count is 0 and the flags word is 0.
C14_NoLeak ==
  ((\A h \in Handles : key[h] = None) /\ lock = Free) =>
    /\ inner.queue = << >>
    /\ inner.notified_count = 0
    /\ flags = 0

\* C15: flags accuracy.  Whenever the mutex is not held, the flags word has
\* WAITING set exactly when the queue is non-empty and NOTIFIED set exactly
\* when notified_count > 0, and no other bit.
C15_FlagsAccurate ==
  ~MutexHeld =>
    /\ HasBit(flags, WAITING) <=> (Len(inner.queue) > 0)
    /\ HasBit(flags, NOTIFIED) <=> (inner.notified_count > 0)
    /\ flags \in {0, WAITING, NOTIFIED, WAITING + NOTIFIED}

\* C15 witness: the lock is free, one handle is queued and another one is
\* notified and has not consumed it; both bits are set.
C15_Witness ==
  /\ ~MutexHeld
  /\ flags = WAITING + NOTIFIED
  /\ Len(inner.queue) = 1
  /\ inner.notified_count = 1

\* C16: reuse safety.  The keys of the entries in the queue are pairwise
\* distinct, and no two handles hold the same key: insert never hands out a
\* key that a Waiting or Notified handle still holds.
C16_ReuseSafety ==
  /\ \A i, j \in 1 .. Len(inner.queue) :
        i # j => inner.queue[i].key # inner.queue[j].key
  /\ \A h1, h2 \in Handles :
        (h1 # h2 /\ key[h1] # None) => key[h1] # key[h2]

\* C17: concurrent notify_any.  From a state with notified_count = 0 and a
\* non-empty queue, with notify_any calls only (any number of them, up to
\* MaxCalls at a time, each loading the flags before it takes the lock): the
\* call that takes the lock first finds notified_count = 0, wakes the head of
\* the queue and returns true; every other call finds notified_count = 1
\* under the lock, or NOTIFIED in the flags, wakes nobody and returns false.
\* So one waiter in total is woken and one call returns true.
C17_ConcurrentNotifyAny ==
  [][ /\ NotifyAny =>
            /\ last'.ret <=> (inner.notified_count = 0)
            /\ last'.ret =>
                  /\ Len(woken') = 1
                  /\ woken'[1] = Head(inner.queue)
                  /\ inner'.notified_count = 1
            /\ ~last'.ret => (woken' = << >> /\ inner' = inner)
      /\ ~NotifyAny => (woken' = << >> /\ inner' = inner)
      /\ inner.notified_count = 0 => inner.queue # << >>
      /\ inner'.notified_count <= 1
      /\ Cardinality(notified') = inner'.notified_count
      /\ Len(inner'.queue) + inner'.notified_count = Len(inner.queue) + inner.notified_count
      /\ last'.op = "notify_any" =>
            /\ Cardinality(notified') = 1
            /\ last'.ret => last'.path = "locked"
    ]_vars

\* C17 witness: a second notify_any call, which had loaded the flags before
\* the first one woke a waiter, has taken the lock with a waiter still queued
\* and has returned false.
C17_Witness ==
  /\ last.op = "notify_any" /\ last.path = "locked" /\ ~last.ret
  /\ inner.queue # << >>
  /\ inner.notified_count = 1

\* how many entries of the queue carry key k
Occurrences(k) == Cardinality({i \in 1 .. Len(inner.queue) : inner.queue[i].key = k})

\* C18: state partition and counter invariant.  Every handle that holds a
\* key is either Waiting, with its key exactly once in the queue, or
\* Notified, with its key not in the queue; every entry of the queue carries
\* the key of exactly one handle; and notified_count is the number of
\* Notified handles (so it is never decremented at 0).
C18_Partition ==
  /\ \A h \in Handles :
        key[h] # None =>
          /\ IsWaiting(h) <=> (Occurrences(key[h]) = 1)
          /\ IsNotified(h) <=> (Occurrences(key[h]) = 0)
  /\ \A i \in 1 .. Len(inner.queue) :
        Cardinality({h \in Handles : key[h] = inner.queue[i].key}) = 1
  /\ inner.notified_count =
        Cardinality({h \in Handles : key[h] # None /\ Occurrences(key[h]) = 0})

\* C19: key classification across wraparound.  is_in_waiting_range is true
\* for the key of every waiter in the queue, also when next_key < min_key;
\* so finish on a Waiting handle returns false, and set_context on a Waiting
\* handle pushes no new entry.
C19_QueuedKeysInRange ==
  /\ \A i \in 1 .. Len(inner.queue) : is_in_waiting_range(inner, inner.queue[i].key)
  /\ (last.op \in {"finish", "set_context"} /\ last.was = "Waiting") => ~last.ret

\* C20: the assertion in notify_first.  Whenever notify_first pops the head
\* of the queue (in notify_one, in notify_any, and in cancel and drop after
\* a remove that returned true, which leaves min_key as it was), the key of
\* the popped waiter is >= min_key as it is at that moment.
C20_AssertHolds ==
  [][ (woken' # << >> /\ last'.op # "notify_all") =>
        /\ Len(woken') = 1
        /\ woken'[1].key >= inner.min_key
    ]_vars

=============================================================================
